---------------------------- MODULE Spec2Model ----------------------------
(***************************************************************************)
(* Model of the CT preprocessing core of ajharris/Distributed-ML:          *)
(*   src/src/preprocess/normalize_resample.py  (pipeline + cache layer)    *)
(*   src/src/preprocess/segment_lung.py        (lung segmentation)         *)
(*   src/src/preprocess/run.py                 (per-series path building)  *)
(*                                                                         *)
(* The module holds several specifications over one set of variables:      *)
(*   SpecSeq    one caller of normalize_and_resample_with_cache            *)
(*   SpecConc   two concurrent callers of the same function                *)
(*   SpecPaths  _build_paths_for_series / _cache_path_for_key on two rows  *)
(*   SpecKey    _cache_path_for_key on a cache directory and any key       *)
(*   SpecSeg    segment_lung called twice on a volume                      *)
(*   SpecNorm   normalize_and_resample on a caller's volume and metadata   *)
(*   SpecRound  save_cached_volume then load_cached_volume of one CTVolume *)
(*   SpecTask   runs of preprocess_single_series, one after or beside      *)
(*              another, on a shared output tree                           *)
(*   SpecPipe   run_pipeline: build_dask_graph, then the tasks on workers  *)
(*   SpecLoad   segment_lung_and_save, alone and inside load_raw_fn         *)
(* Each specification leaves the variables of the others at their initial  *)
(* (idle) values.                                                          *)
(***************************************************************************)
EXTENDS Integers, Sequences, FiniteSets, TLC

VARIABLES
    \* ---- cache layer (normalize_and_resample_with_cache) ----
    files,      \* cache path -> state of the archive file at that path
    dirs,       \* directories that exist
    pc,         \* caller -> position in normalize_and_resample_with_cache
    call,       \* caller -> locals of the call in progress
    loads,      \* key -> number of load_raw_fn invocations so far
    builds,     \* total number of load_raw_fn invocations (names each build)
    hist,       \* key -> history of the calls made with that key
    initAbsent, \* key -> the cache file was absent before the first call
    \* ---- path construction (run.py) ----
    ppc,        \* position of the path-building scenario
    rows,       \* the two metadata rows
    built,      \* per row: result of _build_paths_for_series and derived files
    \* ---- lung segmentation ----
    spc,        \* position of the segmentation scenario
    volume,     \* the caller's HU volume: voxel -> HU value
    segcfg,     \* the LungSegmentationConfig of both calls
    sortMemo,   \* component_sizes -> labels np.argsort put last (tie-break)
    masks,      \* sequence of masks returned so far
    volume0,    \* the volume as it was before the first call
    \* ---- normalize_and_resample ----
    npc,        \* position of the normalization scenario
    heap,       \* object store: caller's array, caller's dicts, results
    nargs,      \* arguments of the call
    nsnap,      \* values of the caller's objects before the call
    nres,       \* the returned CTVolume (or the raised error)
    \* ---- save_cached_volume / load_cached_volume ----
    rpc,        \* position of the save-then-load scenario
    rin,        \* its inputs: data, target spacing, metadata, cache path
    rct,        \* the CTVolume normalize_and_resample returned (miss path)
    rdisk,      \* path -> archive written there
    rloaded,    \* the CTVolume load_cached_volume returned (or the error)
    \* ---- preprocess_single_series and run_pipeline ----
    tdirs,      \* directories of the output tree
    tfiles,     \* path -> the mask or volume file there and the run that wrote it
    truns,      \* run -> locals and position of that preprocess_single_series
    tpipe,      \* run_pipeline: phase, table, order of completion, results
    \* ---- segment_lung_and_save and load_raw_fn ----
    lpc,        \* position in the call
    lin,        \* its inputs: volume, segmentation config, mask path, row
    lst         \* the raw array, the mask, the files, the masked volume, the metadata

cacheVars == <<files, dirs, pc, call, loads, builds, hist, initAbsent>>
pathVars  == <<ppc, rows, built>>
segVars   == <<spc, volume, segcfg, sortMemo, masks, volume0>>
normVars  == <<npc, heap, nargs, nsnap, nres>>
roundVars == <<rpc, rin, rct, rdisk, rloaded>>
taskVars  == <<tdirs, tfiles, truns, tpipe>>
loadVars  == <<lpc, lin, lst>>
vars      == <<cacheVars, pathVars, segVars, normVars, roundVars, taskVars, loadVars>>
otherThanCache == <<pathVars, segVars, normVars, roundVars, taskVars, loadVars>>
otherThanPaths == <<cacheVars, segVars, normVars, roundVars, taskVars, loadVars>>
otherThanNorm  == <<cacheVars, pathVars, segVars, roundVars, taskVars, loadVars>>
otherThanRound == <<cacheVars, pathVars, segVars, normVars, taskVars, loadVars>>
otherThanTask  == <<cacheVars, pathVars, segVars, normVars, roundVars, loadVars>>
otherThanLoad  == <<cacheVars, pathVars, segVars, normVars, roundVars, taskVars>>

(***************************************************************************)
(* Bounds of the model                                                     *)
(***************************************************************************)
MaxCalls == 3          \* calls of normalize_and_resample_with_cache per run
MaxSpacing == 2        \* target spacing components range over 0..MaxSpacing
MaxSeriesLen == 2      \* series ids are strings of at most MaxSeriesLen characters
DimX == 3              \* width of the volumes given to segment_lung
MaxRuns == 2
MaxKeyLen == 3           \* direct invocations of preprocess_single_series
ToleranceHU == 1       \* HU by which an output value may leave the window
MaxKeep == 2           \* num_components_to_keep ranges over 1..MaxKeep

(***************************************************************************)
(* Strings and paths.  A string is a sequence of one-character strings;    *)
(* a literal suffix such as "_normalized_resampled.npz" is one element     *)
(* (it holds no "/").  A path is what pathlib.PurePosixPath keeps of a     *)
(* string: its root and its non-empty, non-"." components.                 *)
(***************************************************************************)
RECURSIVE ReplaceSlash(_)
\* str.replace("/", "_")
ReplaceSlash(s) ==
    IF s = <<>> THEN <<>>
    ELSE <<IF Head(s) = "/" THEN "_" ELSE Head(s)>> \o ReplaceSlash(Tail(s))

RECURSIVE SplitSlash(_, _)
\* s.split("/"), cur being the component read so far
SplitSlash(s, cur) ==
    IF s = <<>> THEN <<cur>>
    ELSE IF Head(s) = "/" THEN <<cur>> \o SplitSlash(Tail(s), <<>>)
    ELSE SplitSlash(Tail(s), Append(cur, Head(s)))

\* pathlib drops empty and "." components
KeptParts(s) == SelectSeq(SplitSlash(s, <<>>), LAMBDA c : c # <<>> /\ c # <<".">>)

\* pathlib's root of a POSIX path string: "//x" keeps "//", "/x" and "///x" are "/"
RootOf(s) ==
    IF Len(s) >= 1 /\ s[1] = "/"
    THEN IF Len(s) >= 2 /\ s[2] = "/" /\ ~(Len(s) >= 3 /\ s[3] = "/")
         THEN "//" ELSE "/"
    ELSE ""

\* Path(s)
ParsePath(s) == [root |-> RootOf(s), parts |-> KeptParts(s)]

\* path / s : an absolute right operand replaces the left one
JoinPath(p, s) ==
    IF RootOf(s) # "" THEN ParsePath(s)
    ELSE [root |-> p.root, parts |-> p.parts \o KeptParts(s)]

\* a variant that keeps the key as it is
CachePathForKey_noReplace(cache_dir, cache_key) ==
    JoinPath(cache_dir, cache_key \o <<"_normalized_resampled.npz">>)

\* _cache_path_for_key: cache_dir / (cache_key.replace("/", "_") + suffix)
CachePathForKey(cache_dir, cache_key) ==
    JoinPath(cache_dir, ReplaceSlash(cache_key) \o <<"_normalized_resampled.npz">>)

(***************************************************************************)
(* Cache layer: normalize_and_resample_with_cache, save_cached_volume,     *)
(* load_cached_volume.  A build is named by the number of the load_raw_fn  *)
(* invocation that produced its raw data; an entry (a CTVolume as the      *)
(* cache sees it) is the build it came from and the target spacing its     *)
(* preprocessing record holds.                                             *)
(***************************************************************************)
Callers == {1, 2}
Keys == {<<"s", "1">>, <<"s", "2">>}
CacheDir == ParsePath(<<"cache">>)

\* target_spacing values a call may pass in **normalize_kwargs
CacheTargets == {<<1, 1, 1>>, <<MaxSpacing, MaxSpacing, MaxSpacing>>, <<0, 1, 1>>}

\* a check that lets every target spacing pass
TargetSpacingValid_any(t) == TRUE

\* compute_zoom_factors: "if tz <= 0 or ty <= 0 or tx <= 0: raise ValueError"
TargetSpacingValid(t) == ~(t[1] <= 0 \/ t[2] <= 0 \/ t[3] <= 0)

\* members of the archive, in the order np.savez_compressed writes them
ArchiveMembers == <<"data", "spacing", "metadata_json">>

NoEntry == [build |-> -1, target |-> <<>>]

\* the archive can be opened by np.load: all members and the central directory
\* (written when the zip file is closed) are there
FileComplete(f) == f.state = "closed"

IdleCall == [key |-> <<>>, force |-> FALSE, target |-> <<>>, path |-> CacheDir,
             existed |-> FALSE, nload |-> 0, raw |-> -1, ct |-> NoEntry,
             dirBuild |-> -1, nread |-> 0, err |-> "", before |-> <<>>]

RECURSIVE SumStarted(_, _)
SumStarted(h, ks) ==
    IF ks = {} THEN 0
    ELSE LET k == CHOOSE x \in ks : TRUE IN h[k].started + SumStarted(h, ks \ {k})

\* variants of the hit test: one that recomputes unless forced not to, one that
\* ignores force_recompute, one that does not look at the file, one that never
\* uses the cache
CacheHit_negationDropped(exists, force) == exists /\ force
CacheHit_forceIgnored(exists, force) == exists
CacheHit_fileNotTested(exists, force) == ~force
CacheHit_never(exists, force) == FALSE

\* line 367: "if cache_path.exists() and not force_recompute"
CacheHit(exists, force) == exists /\ ~force

\* lines 365-367: derive the path (creating cache_dir), test for a hit
Call(c, ks) ==
    LET
        \* cache_path.exists()
        FileExists(f) == f.state # "absent"
    IN
    /\ pc[c] = "idle"
    /\ SumStarted(hist, Keys) < MaxCalls
    /\ \E k \in ks, force \in BOOLEAN, t \in CacheTargets :
         LET path == CachePathForKey(CacheDir, k)
             exists == FileExists(files[path])
         IN /\ call' = [call EXCEPT ![c] =
                          [IdleCall EXCEPT !.key = k, !.force = force, !.target = t,
                                           !.path = path, !.existed = exists,
                                           !.before = files[path]]]
            /\ dirs' = dirs \cup {CacheDir}
            /\ pc' = [pc EXCEPT ![c] = IF CacheHit(exists, force) THEN "hit" ELSE "miss"]
            /\ hist' = [hist EXCEPT ![k].started = @ + 1,
                                    ![k].forced = @ + (IF force THEN 1 ELSE 0)]
    /\ UNCHANGED <<files, loads, builds, initAbsent, otherThanCache>>

Raise(c, e) ==
    /\ pc' = [pc EXCEPT ![c] = "failed"]
    /\ hist' = [hist EXCEPT ![call[c].key].failed = @ + 1]

\* load_cached_volume, lines 323-327: np.load opens the archive and reads its
\* central directory; an archive still being written has none
HitOpen(c) ==
    /\ pc[c] = "hit"
    /\ LET f == files[call[c].path] IN
         IF FileComplete(f)
         THEN /\ call' = [call EXCEPT ![c].dirBuild = f.entry.build]
              /\ pc' = [pc EXCEPT ![c] = "hit_read"]
              /\ UNCHANGED hist
         ELSE /\ call' = [call EXCEPT ![c].err = "partial archive"]
              /\ Raise(c, "partial archive")
    /\ UNCHANGED <<files, dirs, loads, builds, initAbsent, otherThanCache>>

\* lines 328-334: the members are read one by one through the open archive; a
\* member of an archive that was rewritten since it was opened fails its check
HitRead(c) ==
    /\ pc[c] = "hit_read"
    /\ LET f == files[call[c].path] IN
         IF FileComplete(f) /\ f.entry.build = call[c].dirBuild
         THEN /\ call' = [call EXCEPT ![c].nread = @ + 1,
                            ![c].ct = IF call[c].nread + 1 = Len(ArchiveMembers)
                                      THEN f.entry ELSE @]
              /\ pc' = [pc EXCEPT ![c] = IF call[c].nread + 1 = Len(ArchiveMembers)
                                         THEN "done" ELSE "hit_read"]
              /\ UNCHANGED hist
         ELSE /\ call' = [call EXCEPT ![c].err = "partial archive"]
              /\ Raise(c, "partial archive")
    /\ UNCHANGED <<files, dirs, loads, builds, initAbsent, otherThanCache>>

\* line 372: load_raw_fn() is invoked; it returns the raw data or raises
LoadRaw(c) ==
    /\ pc[c] = "miss"
    /\ loads' = [loads EXCEPT ![call[c].key] = @ + 1]
    /\ builds' = builds + 1
    /\ \E ok \in BOOLEAN :
         IF ok
         THEN /\ call' = [call EXCEPT ![c].nload = @ + 1, ![c].raw = builds + 1]
              /\ pc' = [pc EXCEPT ![c] = "normalize"]
              /\ UNCHANGED hist
         ELSE /\ call' = [call EXCEPT ![c].nload = @ + 1, ![c].err = "load_raw_fn raised"]
              /\ Raise(c, "load_raw_fn raised")
    /\ UNCHANGED <<files, dirs, initAbsent, otherThanCache>>

\* lines 374-379: normalize_and_resample; a non-positive target spacing raises
Normalize(c) ==
    /\ pc[c] = "normalize"
    /\ IF TargetSpacingValid(call[c].target)
       THEN /\ call' = [call EXCEPT ![c].ct = [build |-> call[c].raw,
                                               target |-> call[c].target]]
            /\ pc' = [pc EXCEPT ![c] = "save"]
            /\ UNCHANGED hist
       ELSE /\ call' = [call EXCEPT ![c].err = "ValueError"]
            /\ Raise(c, "ValueError")
    /\ UNCHANGED <<files, dirs, loads, builds, initAbsent, otherThanCache>>

\* What a step of a writer does to the file: the file is opened in place
\* (mode "w" truncates it), so another writer's bytes are mixed with this one's
WrittenBy(c, f, n, closing) ==
    [state |-> IF closing THEN "closed" ELSE "open",
     n |-> n,
     entry |-> call[c].ct,
     owner |-> c,
     torn |-> IF n = 0 THEN FALSE ELSE f.torn \/ f.owner # c]

\* save_cached_volume, line 313: np.savez_compressed opens cache_path for writing
SaveOpen(c) ==
    /\ pc[c] = "save"
    /\ files' = [files EXCEPT ![call[c].path] = WrittenBy(c, @, 0, FALSE)]
    /\ pc' = [pc EXCEPT ![c] = "save_write"]
    /\ UNCHANGED <<dirs, call, loads, builds, hist, initAbsent, otherThanCache>>

\* lines 315-317: the next member is compressed into the archive
SaveWrite(c) ==
    /\ pc[c] = "save_write"
    /\ LET f == files[call[c].path]
           n == IF f.owner = c THEN f.n ELSE 0
       IN /\ n < Len(ArchiveMembers)
          /\ files' = [files EXCEPT ![call[c].path] = WrittenBy(c, @, n + 1, FALSE)]
          /\ pc' = [pc EXCEPT ![c] = IF n + 1 = Len(ArchiveMembers)
                                     THEN "save_close" ELSE "save_write"]
    /\ UNCHANGED <<dirs, call, loads, builds, hist, initAbsent, otherThanCache>>

\* line 318: the archive is closed (its central directory is written); bytes
\* of two writers mixed in one file may or may not form an archive
SaveClose(c) ==
    /\ pc[c] = "save_close"
    /\ LET w == WrittenBy(c, files[call[c].path], Len(ArchiveMembers), TRUE) IN
         \E st \in IF w.torn THEN {"closed", "corrupt"} ELSE {"closed"} :
            files' = [files EXCEPT ![call[c].path] = [w EXCEPT !.state = st]]
    /\ pc' = [pc EXCEPT ![c] = "done"]
    /\ UNCHANGED <<dirs, call, loads, builds, hist, initAbsent, otherThanCache>>

\* lines 369 and 381: "return ct, cache_path"
Return(c) ==
    /\ pc[c] = "done"
    /\ hist' = [hist EXCEPT ![call[c].key].returned = @ + 1,
                            ![call[c].key].paths = @ \cup {call[c].path}]
    /\ pc' = [pc EXCEPT ![c] = "idle"]
    /\ call' = [call EXCEPT ![c] = IdleCall]
    /\ UNCHANGED <<files, dirs, loads, builds, initAbsent, otherThanCache>>

\* the exception reaches the caller
Propagate(c) ==
    /\ pc[c] = "failed"
    /\ pc' = [pc EXCEPT ![c] = "idle"]
    /\ call' = [call EXCEPT ![c] = IdleCall]
    /\ UNCHANGED <<files, dirs, loads, builds, hist, initAbsent, otherThanCache>>

CacheStep(c, ks) ==
    \/ Call(c, ks) \/ HitOpen(c) \/ HitRead(c) \/ LoadRaw(c) \/ Normalize(c)
    \/ SaveOpen(c) \/ SaveWrite(c) \/ SaveClose(c) \/ Return(c) \/ Propagate(c)

(***************************************************************************)
(* Path construction in run.py: _build_cache_key, _build_paths_for_series  *)
(* and the two files preprocess_single_series derives for a row.           *)
(***************************************************************************)
Absent == "<absent>"              \* the row has no such field

RECURSIVE StringsUpTo(_)
StringsUpTo(n) ==
    LET
        NameAlphabet == {"a", "/", "_"}
    IN
    IF n = 0 THEN {<<>>}
    ELSE LET shorter == StringsUpTo(n - 1)
         IN shorter \cup {Append(t, ch) : t \in shorter, ch \in NameAlphabet}

Rows ==
    LET
        RawPaths == {Absent, <<"r", ".", "n", "i", "i">>}
        DatasetNames == {Absent, <<"UNKNOWN">>, <<"a">>, <<"a", "/">>, <<"a", "_">>}
        SeriesIds == StringsUpTo(MaxSeriesLen)
    IN
        [dataset : DatasetNames, series : SeriesIds, raw : RawPaths]

DataRoot == ParsePath(<<"data">>)       \* paths.data_root
OutputRoot == ParsePath(<<"out">>)      \* paths.output_root

\* run.py line 233: str(row.get(COL_DATASET_NAME, "UNKNOWN"))
DatasetNameOf(row) == IF row.dataset = Absent THEN <<"UNKNOWN">> ELSE row.dataset

BuildCacheKey_noSeparator(dataset_name, series_uid) == dataset_name \o series_uid

\* _build_cache_key: f"{dataset_name}__{series_uid}"
BuildCacheKey(dataset_name, series_uid) == dataset_name \o <<"_", "_">> \o series_uid

\* a variant that goes on with str(None) as the relative path
BuildPathsForSeries_noCheck(row) ==
    LET dataset_name == DatasetNameOf(row)
        dataset_root == JoinPath(OutputRoot, dataset_name)
    IN [raised |-> FALSE,
        raw_path |-> JoinPath(DataRoot, IF row.raw = Absent THEN <<"None">> ELSE row.raw),
        vol_cache_dir |-> JoinPath(dataset_root, <<"volumes">>),
        mask_cache_dir |-> JoinPath(dataset_root, <<"lung_masks">>),
        dataset_name |-> dataset_name,
        cache_key |-> dataset_name \o <<"_", "_">> \o row.series]

\* _build_paths_for_series: raises when the raw-path field is absent
BuildPathsForSeries(row) ==
    LET dataset_name == DatasetNameOf(row)
        dataset_root == JoinPath(OutputRoot, dataset_name)
    IN IF row.raw = Absent
       THEN [raised |-> TRUE]
       ELSE [raised |-> FALSE,
             raw_path |-> JoinPath(DataRoot, row.raw),
             vol_cache_dir |-> JoinPath(dataset_root, <<"volumes">>),
             mask_cache_dir |-> JoinPath(dataset_root, <<"lung_masks">>),
             dataset_name |-> dataset_name,
             cache_key |-> BuildCacheKey(dataset_name, row.series)]

\* run.py line 314: mask_cache_dir / f"{cache_key}_lungmask.npy"
MaskCachePath(b) == JoinPath(b.mask_cache_dir, b.cache_key \o <<"_lungmask.npy">>)

\* the cache file normalize_and_resample_with_cache derives (lines 334-338, 365)
VolumeCachePath(b) == CachePathForKey(b.vol_cache_dir, b.cache_key)

\* the files the task of a row writes
TaskFiles(row) ==
    LET b == BuildPathsForSeries(row)
    IN IF b.raised THEN [raised |-> TRUE]
       ELSE [raised |-> FALSE, cache_key |-> b.cache_key,
             vol_cache_dir |-> b.vol_cache_dir,
             volume |-> VolumeCachePath(b), mask |-> MaskCachePath(b)]

\* the task of one row of the table derives its paths
FirstTask ==
    /\ ppc = "first"
    /\ \E r \in Rows : rows' = <<r>> /\ built' = <<TaskFiles(r)>>
    /\ ppc' = "second"
    /\ UNCHANGED otherThanPaths

\* the task of another row derives its paths
SecondTask ==
    /\ ppc = "second"
    /\ \E r \in Rows : rows' = Append(rows, r) /\ built' = Append(built, TaskFiles(r))
    /\ ppc' = "both"
    /\ UNCHANGED otherThanPaths

\* _cache_path_for_key called on a cache directory and a key of any characters,
\* path separators, "." and ".." segments included
CachePathCall ==
    LET RECURSIVE KeyStrings(_)
        KeyStrings(n) ==
            IF n = 0 THEN {<<>>}
            ELSE LET shorter == KeyStrings(n - 1)
                 IN shorter \cup {Append(t, ch) : t \in shorter, ch \in {"a", "/", ".", "_"}}
        CacheDirStrings == {<<"c">>, <<"/", "c">>, <<".">>, <<"c", "/", ".", ".">>}
    IN
    /\ ppc = "key"
    /\ \E d \in CacheDirStrings, k \in KeyStrings(MaxKeyLen) :
         /\ rows' = <<[cache_dir |-> d, cache_key |-> k]>>
         /\ built' = <<CachePathForKey(ParsePath(d), k)>>
    /\ ppc' = "derived"
    /\ UNCHANGED otherThanPaths

(***************************************************************************)
(* Lung segmentation: segment_lung.  A volume maps each voxel <<z, y, x>>  *)
(* to its HU value; a mask is the set of its true voxels.                  *)
(***************************************************************************)
Min2(a, b) == IF a <= b THEN a ELSE b

HuThreshold == -320                  \* LungSegmentationConfig.hu_threshold
Shape == <<1, 3, DimX>>              \* (Z, Y, X): one depth slice
Coords == (0 .. Shape[1] - 1) \X (0 .. Shape[2] - 1) \X (0 .. Shape[3] - 1)

\* the volumes given to segment_lung: each voxel is lung/air (-800) or at the
\* threshold; every such volume of up to nine voxels, and of the larger ones
\* those with at most two voxels of one of the two kinds
Volumes ==
    LET all == [Coords -> {-800, HuThreshold}]
        count(vol, hu) == Cardinality({v \in Coords : vol[v] = hu})
    IN IF Cardinality(Coords) <= 9 THEN all
       ELSE {vol \in all : count(vol, -800) <= 2 \/ count(vol, HuThreshold) <= 2}

\* position of a voxel in C (row-major) order
ScanIndex(v) == (v[1] * Shape[2] + v[2]) * Shape[3] + v[3]

\* the six face neighbours of a voxel, inside the volume or not
FaceNeighbours(v) ==
    {<<v[1] - 1, v[2], v[3]>>, <<v[1] + 1, v[2], v[3]>>,
     <<v[1], v[2] - 1, v[3]>>, <<v[1], v[2] + 1, v[3]>>,
     <<v[1], v[2], v[3] - 1>>, <<v[1], v[2], v[3] + 1>>}

\* line 62: thresh = volume_hu < config.hu_threshold
Threshold(vol, cfg) == {v \in Coords : vol[v] < cfg.hu_threshold}

\* the face neighbours of each voxel that lie inside the volume
InsideNeighbours == [v \in Coords |-> FaceNeighbours(v) \cap Coords]

RECURSIVE Grow(_, _, _)
\* the face-connected component of S that holds seed; frontier is the part of
\* seed whose neighbours have not been looked at
Grow(seed, frontier, S) ==
    IF frontier = {} THEN seed
    ELSE LET next == (UNION {InsideNeighbours[v] : v \in frontier} \cap S) \ seed
         IN Grow(seed \cup next, next, S)

FirstVoxel(S) == CHOOSE v \in S : \A u \in S : ScanIndex(v) <= ScanIndex(u)

RECURSIVE LabelFrom(_, _)
\* ndimage.label (line 69): components numbered in scan order of their first voxel
LabelFrom(S, acc) ==
    IF S = {} THEN acc
    ELSE LET comp == Grow({FirstVoxel(S)}, {FirstVoxel(S)}, S)
         IN LabelFrom(S \ comp, Append(acc, comp))

\* the components as a sequence: component i is the set of voxels labelled i
Label(S) == LabelFrom(S, <<>>)

\* lines 73-74: np.bincount(labeled.ravel()) with the background count zeroed
ComponentSizes(comps) ==
    [l \in 0 .. Len(comps) |-> IF l = 0 THEN 0 ELSE Cardinality(comps[l])]

\* lines 77-82: labels whose count is below min_component_size (label 0 among them)
TooSmall(sizes, cfg) ==
    IF cfg.min_component_size > 0
    THEN {l \in DOMAIN sizes : sizes[l] < cfg.min_component_size}
    ELSE {}

\* component_sizes after line 82
FilteredSizes(sizes, cfg) ==
    [l \in DOMAIN sizes |-> IF l \in TooSmall(sizes, cfg) THEN 0 ELSE sizes[l]]

\* line 88: the label sets np.argsort(component_sizes)[-n:] can hold; the order
\* argsort gives equal counts is not specified
LastOfArgsort(sizes, n) ==
    LET m == IF n < Cardinality(DOMAIN sizes) THEN n ELSE Cardinality(DOMAIN sizes)
    IN {K \in SUBSET (DOMAIN sizes) :
          /\ Cardinality(K) = m
          /\ \A a \in K, b \in (DOMAIN sizes) \ K : sizes[a] >= sizes[b]}

\* line 89: np.isin(labeled, keep_labels), labeled being the labels after
\* line 81 has set the voxels of too small components to 0
IsIn(comps, small, keep) ==
    LET kept == UNION {comps[l] : l \in (keep \ small) \ {0}}
        zero == Coords \ UNION {comps[l] : l \in (1 .. Len(comps)) \ small}
    IN IF 0 \in keep THEN kept \cup zero ELSE kept

\* ndimage.binary_dilation, face-connected structure, border_value 0
Dilate(M) == M \cup UNION {InsideNeighbours[v] : v \in M}
\* ndimage.binary_erosion, face-connected structure, border_value 0: a voxel
\* with a neighbour outside the volume is removed
Erode(M) == {v \in M : FaceNeighbours(v) \subseteq M}

RECURSIVE DilateTimes(_, _)
DilateTimes(M, n) == IF n = 0 THEN M ELSE DilateTimes(Dilate(M), n - 1)
RECURSIVE ErodeTimes(_, _)
ErodeTimes(M, n) == IF n = 0 THEN M ELSE ErodeTimes(Erode(M), n - 1)

\* lines 92-98: ndimage.binary_closing = dilation then erosion, each iterated
BinaryClosing(M, iterations) == ErodeTimes(DilateTimes(M, iterations), iterations)

\* the four edge neighbours of a voxel in its depth slice
SliceNeighbours(v) ==
    {<<v[1], v[2] - 1, v[3]>>, <<v[1], v[2] + 1, v[3]>>,
     <<v[1], v[2], v[3] - 1>>, <<v[1], v[2], v[3] + 1>>}

RECURSIVE Flood(_, _)
\* false voxels reached from outside the slice through false voxels
Flood(reached, M) ==
    LET next == reached \cup
                {v \in Coords \ M : SliceNeighbours(v) \cap reached # {}}
    IN IF next = reached THEN reached ELSE Flood(next, M)

\* a filling of the cavities enclosed in 3-D: ndimage.binary_fill_holes on the
\* whole volume
FillHoles_volume(M) ==
    LET RECURSIVE Flood3(_)
        Flood3(reached) ==
            LET next == reached \cup
                        {v \in Coords \ M : FaceNeighbours(v) \cap reached # {}}
            IN IF next = reached THEN reached ELSE Flood3(next)
    IN Coords \ Flood3({v \in Coords \ M : ~(FaceNeighbours(v) \subseteq Coords)})

\* lines 101-105: ndimage.binary_fill_holes on every depth slice
FillHoles(M) ==
    LET border == {v \in Coords \ M : ~(SliceNeighbours(v) \subseteq Coords)}
    IN Coords \ Flood(border, M)

\* lines 91-107: closing and hole filling of the selected components
PostProcess(M, cfg) ==
    LET closed == IF cfg.closing_iterations > 0
                  THEN BinaryClosing(M, cfg.closing_iterations) ELSE M
    IN IF cfg.fill_holes THEN FillHoles(closed) ELSE closed

\* the early returns without the test of lines 84-85
ReturnsEmpty_noSizeTest(thresh, fsizes) == thresh = {}

\* lines 64-66, 70-71, 84-85: the cases that return an all-false mask early
ReturnsEmpty(thresh, fsizes) ==
    \/ thresh = {}
    \/ \A l \in DOMAIN fsizes : fsizes[l] = 0

\* segment_lung given the labels argsort put last
SegmentLungWith(vol, cfg, keep) ==
    LET thresh == Threshold(vol, cfg)
        comps == Label(thresh)
        sizes == ComponentSizes(comps)
        fsizes == FilteredSizes(sizes, cfg)
    IN IF ReturnsEmpty(thresh, fsizes) THEN {}
       ELSE PostProcess(IsIn(comps, TooSmall(sizes, cfg), keep), cfg)

\* component_sizes as line 88 sees it
SizesAtSort(vol, cfg) ==
    FilteredSizes(ComponentSizes(Label(Threshold(vol, cfg))), cfg)

\* a segment_lung that zeroes the too small components in its argument
VolumeAfterSegment_inPlace(vol, cfg) ==
    LET comps == Label(Threshold(vol, cfg))
        small == TooSmall(ComponentSizes(comps), cfg)
    IN [v \in Coords |->
          IF \E l \in small \ {0} : v \in comps[l] THEN 0 ELSE vol[v]]

\* the caller's array after the call: segment_lung only reads volume_hu
\* (line 62 allocates thresh, line 81 writes to the array ndimage.label made)
VolumeAfterSegment(vol, cfg) == vol

\* one call of segment_lung(volume, config=segcfg).  np.argsort is a function:
\* the order it gave an array of counts once, it gives again
Segment ==
    LET
        otherThanSeg   == <<cacheVars, pathVars, normVars, roundVars, taskVars, loadVars>>
    IN
    /\ spc \in {"start", "once"}
    /\ LET sizes == SizesAtSort(volume, segcfg)
           n == segcfg.num_components_to_keep
           known == {m \in sortMemo : m.sizes = sizes /\ m.n = n}
       IN \E keep \in IF known # {} THEN {m.keep : m \in known}
                      ELSE LastOfArgsort(sizes, n) :
            /\ masks' = Append(masks, SegmentLungWith(volume, segcfg, keep))
            /\ sortMemo' = sortMemo \cup {[sizes |-> sizes, n |-> n, keep |-> keep]}
    /\ volume' = VolumeAfterSegment(volume, segcfg)
    /\ spc' = IF spc = "start" THEN "once" ELSE "twice"
    /\ UNCHANGED <<segcfg, volume0, otherThanSeg>>

(***************************************************************************)
(* normalize_and_resample on the caller's objects.  heap maps the name of  *)
(* each live object (array or dict) to its value; two names bound to one   *)
(* object are one entry of heap.  An array is its dtype, its shape and its *)
(* values along x as numerators over a common denominator (the inputs have *)
(* shape (1, 1, 3), so the values do not vary along z and y).  A dict maps *)
(* keys to values; a value that is itself a dict is a reference to it.     *)
(***************************************************************************)
None == [kind |-> "none"]
Str(x) == [kind |-> "str", v |-> x]
Tup(t) == [kind |-> "tuple", v |-> t]
Ref(o) == [kind |-> "ref", v |-> o]
Dict(f) == [kind |-> "dictobj", items |-> f]
EmptyDict == Dict(<<>>)

\* clamp_hu line 77: np.clip(v, hu_min, hu_max, out=v) writes into v
Clipped(arr, win) ==
    LET
        \* np.clip(x, hu_min, hu_max) of one value: minimum(maximum(x, hu_min), hu_max)
        Clip(x, den, hu_min, hu_max) ==
            LET
                Max2(a, b) == IF a >= b THEN a ELSE b
            IN
                                        Min2(Max2(x, hu_min * den), hu_max * den)
    IN
    [arr EXCEPT !.dtype = "float32",
                !.nums = [i \in DOMAIN arr.nums |-> Clip(arr.nums[i], arr.den, win[1], win[2])]]

\* scipy.ndimage.zoom: output_shape = round(input_shape * zoom) with
\* zoom = current_spacing / target_spacing (compute_zoom_factors line 135)
ZoomShape(shape, spacing, target) ==
    LET
        \* round(p / q) as Python rounds (halves to even), q > 0
        RoundHalfEven(p, q) ==
            LET f == p \div q
                r == p % q
            IN IF 2 * r < q THEN f
               ELSE IF 2 * r > q THEN f + 1
               ELSE IF f % 2 = 0 THEN f ELSE f + 1
    IN
    [i \in 1 .. 3 |-> RoundHalfEven(shape[i] * spacing[i], target[i])]

RECURSIVE SumOver(_, _)
SumOver(f, S) ==
    IF S = {} THEN 0
    ELSE LET x == CHOOSE y \in S : TRUE IN f[x] + SumOver(f, S \ {x})

\* scipy.ndimage.zoom along x of a three-voxel axis to n voxels: output voxel
\* k samples the input at 2 k / (n - 1) (at 0 when n = 1); order 0 takes the
\* nearest voxel, order 1 interpolates linearly, order 3 evaluates the cubic
\* spline through the samples.  An output with an empty axis has no values.
Zoom(arr, spacing, target, order) ==
    LET
        \* spline_filter of three samples, mirror boundary: the coefficients c with
        \* (c[j-1] + 4 c[j] + c[j+1]) / 6 = s[j], as numerators over 4, at the
        \* indices -1 .. 3 (c[-1] = c[1] = c[3])
        SplineCoefficients(s) ==
            LET c0 == 7 * s[1] - 4 * s[2] + s[3]
                c1 == 8 * s[2] - 2 * (s[1] + s[3])
                c2 == 7 * s[3] - 4 * s[2] + s[1]
            IN [j \in -1 .. 3 |-> IF j = 0 THEN c0 ELSE IF j = 2 THEN c2 ELSE c1]
        \* the cubic B-spline at d / q, as a numerator over 6 * q^3
        BSpline3(d, q) ==
            LET
                Abs(x) == IF x < 0 THEN -x ELSE x
            IN
            LET a == Abs(d)
            IN IF a <= q THEN 4 * q * q * q - 6 * a * a * q + 3 * a * a * a
               ELSE IF a < 2 * q THEN (2 * q - a) * (2 * q - a) * (2 * q - a)
               ELSE 0
    IN
    LET shape == ZoomShape(arr.shape, spacing, target)
        n == shape[3]
        s == arr.nums
        q == n - 1
        empty == \E i \in 1 .. 3 : shape[i] = 0
        Nearest(k) == s[1 + (4 * k + q) \div (2 * q)]
        Linear(k) ==
            LET i0 == Min2((2 * k) \div q, 1)
                fr == 2 * k - i0 * q
            IN s[i0 + 1] * (q - fr) + s[i0 + 2] * fr
        Cubic(k) ==
            LET c == SplineCoefficients(s)
            IN SumOver([j \in -1 .. 3 |-> c[j] * BSpline3(2 * k - j * q, q)], -1 .. 3)
    IN IF empty THEN [dtype |-> "float32", shape |-> shape, den |-> arr.den, nums |-> <<>>]
       ELSE IF n = 1
       THEN [dtype |-> "float32", shape |-> shape, den |-> arr.den, nums |-> <<s[1]>>]
       ELSE IF order = 0
       THEN [dtype |-> "float32", shape |-> shape, den |-> arr.den,
             nums |-> [k \in 1 .. n |-> Nearest(k - 1)]]
       ELSE IF order = 1
       THEN [dtype |-> "float32", shape |-> shape, den |-> arr.den * q,
             nums |-> [k \in 1 .. n |-> Linear(k - 1)]]
       ELSE [dtype |-> "float32", shape |-> shape, den |-> arr.den * 24 * q * q * q,
             nums |-> [k \in 1 .. n |-> Cubic(k - 1)]]

\* lines 268-274: the record stored under preprocessing.normalize_resample
NormalizeRecord(a) ==
    LET
        Rec(r) == [kind |-> "dict", v |-> r]
    IN
    Rec([hu_window |-> a.hu_window, apply_denoising |-> a.apply_denoising,
         denoise_sigma |-> a.denoise_sigma, target_spacing_mm |-> a.target_spacing,
         interpolation_order |-> a.interpolation_order])

CopyMetadata_empty(m) == EmptyDict

\* line 264: dict(metadata) if metadata is not None else {} -- a new dict
\* holding the same values (a nested dict is shared, not copied)
CopyMetadata(m) == IF m = None THEN EmptyDict ELSE Dict(m.items)

\* d[key] = value
SetItem(d, key, value) ==
    Dict([k \in DOMAIN d.items \cup {key} |-> IF k = key THEN value ELSE d.items[k]])

\* line 250 (clamp_hu, lines 76-77)
ClampHu ==
    LET
        \* volume.astype(np.float32, copy=False): the array itself when it is float32
        AstypeCopies(arr) == arr.dtype # "float32"
    IN
    /\ npc = "clamp"
    /\ LET v == IF AstypeCopies(heap["volume"]) THEN "v_float32" ELSE "volume"
       IN /\ heap' = (v :> Clipped(heap["volume"], nargs.hu_window)) @@ heap
          /\ nres' = [v |-> v]
    /\ npc' = "denoise"
    /\ UNCHANGED <<nargs, nsnap, otherThanNorm>>

\* line 253 (maybe_denoise, lines 101-106)
MaybeDenoise ==
    LET
        \* gaussian_filter, sigma 0.75, mode "reflect", along x: each output is a
        \* convex combination of the inputs; the kernel (0.219, 0.532, 0.219, with
        \* tails below 0.016) is taken as (1/4, 1/2, 1/4)
        Gaussian(arr) ==
            LET s == arr.nums
                n == Len(s)
                At(i) == IF i < 1 THEN s[1] ELSE IF i > n THEN s[n] ELSE s[i]
            IN [arr EXCEPT !.den = 4 * arr.den,
                           !.nums = [i \in 1 .. n |-> At(i - 1) + 2 * s[i] + At(i + 1)]]
    IN
    /\ npc = "denoise"
    /\ IF nargs.apply_denoising
       THEN /\ heap' = ("denoised" :> Gaussian(heap[nres.v])) @@ heap
            /\ nres' = [v |-> "denoised"]
       ELSE UNCHANGED <<heap, nres>>
    /\ npc' = "resample"
    /\ UNCHANGED <<nargs, nsnap, otherThanNorm>>

\* line 163 (compute_zoom_factors, lines 129-135): only the target spacing
\* is tested
ComputeZoomFactors ==
    /\ npc = "resample"
    /\ IF TargetSpacingValid(nargs.target_spacing)
       THEN /\ npc' = "zoom"
            /\ UNCHANGED nres
       ELSE /\ nres' = [raised |-> "ValueError"]
            /\ npc' = "raised"
    /\ UNCHANGED <<heap, nargs, nsnap, otherThanNorm>>

\* lines 164-169 (scipy.ndimage.zoom): a negative output dimension raises; an
\* output with an empty axis is returned empty or refused, depending on the
\* library version
Resample ==
    LET
        \* np.zeros(output_shape) inside scipy.ndimage.zoom refuses a negative dimension
        ZoomRaises(shape) == \E i \in 1 .. 3 : shape[i] < 0
    IN
    /\ npc = "zoom"
    /\ LET shape == ZoomShape(heap[nres.v].shape, nargs.spacing, nargs.target_spacing)
       IN \E refuseEmpty \in BOOLEAN :
            IF ZoomRaises(shape) \/ (refuseEmpty /\ \E i \in 1 .. 3 : shape[i] = 0)
            THEN /\ nres' = [raised |-> "ValueError"]
                 /\ npc' = "raised"
                 /\ UNCHANGED heap
            ELSE /\ heap' = ("resampled" :> Zoom(heap[nres.v], nargs.spacing,
                                    nargs.target_spacing, nargs.interpolation_order))
                            @@ heap
                 /\ nres' = [v |-> "resampled"]
                 /\ npc' = "stamp"
    /\ UNCHANGED <<nargs, nsnap, otherThanNorm>>

\* lines 264-281: the metadata of the result, and the result
Stamp ==
    /\ npc = "stamp"
    /\ LET meta1 == SetItem(CopyMetadata(heap["metadata"]), "spacing_mm",
                            Tup(nargs.target_spacing))
           had == "preprocessing" \in DOMAIN meta1.items
           \* line 267: meta.get("preprocessing", {})
           info == IF had THEN meta1.items["preprocessing"] ELSE Ref("pre_new")
       IN IF info.kind # "ref"
          THEN \* line 268: item assignment on a value that is no dict
               /\ nres' = [raised |-> "TypeError"]
               /\ npc' = "raised"
               /\ UNCHANGED heap
          ELSE /\ heap' = ("meta" :> SetItem(meta1, "preprocessing", info))
                          @@ (info.v :> SetItem(IF had THEN heap[info.v] ELSE EmptyDict,
                                                "normalize_resample",
                                                NormalizeRecord(nargs)))
                          @@ heap
               /\ nres' = [data |-> nres.v, spacing |-> nargs.target_spacing,
                           metadata |-> "meta"]
               /\ npc' = "returned"
    /\ UNCHANGED <<nargs, nsnap, otherThanNorm>>

(***************************************************************************)
(* save_cached_volume / load_cached_volume on one CTVolume.  A spacing     *)
(* component is a double, held as an integer number of 2^-24 mm, so that   *)
(* its conversion to float32 (24 significant bits) is computed exactly.    *)
(* Metadata is a tree of values; JSON text is the tree json.dumps writes.  *)
(***************************************************************************)
TwoTo24 == 2 ^ 24

\* the power of two in which a float32 of magnitude n is counted
RECURSIVE Quantum(_)
Quantum(n) == IF n < TwoTo24 THEN 1 ELSE 2 * Quantum(n \div 2)

\* np.asarray(x, dtype=np.float32) of one double: the nearest float32, halves
\* to the even mantissa
RoundFloat32(n) ==
    LET q == Quantum(n)
        f == n \div q
        r == n % q
    IN IF 2 * r < q THEN f * q
       ELSE IF 2 * r > q THEN (f + 1) * q
       ELSE IF f % 2 = 0 THEN f * q ELSE (f + 1) * q

\* json.dumps: strings, arrays (of a tuple or a list), objects
RECURSIVE JsonDumps(_)
JsonDumps(x) ==
    IF x.kind = "dictobj"
    THEN [kind |-> "jobject", items |-> [k \in DOMAIN x.items |-> JsonDumps(x.items[k])]]
    ELSE IF x.kind \in {"tuple", "list"} THEN [kind |-> "jarray", v |-> x.v]
    ELSE [kind |-> "jstring", v |-> x.v]

\* json.loads: an array becomes a list
RECURSIVE JsonLoads(_)
JsonLoads(j) ==
    LET
        List(t) == [kind |-> "list", v |-> t]
    IN
    IF j.kind = "jobject"
    THEN Dict([k \in DOMAIN j.items |-> JsonLoads(j.items[k])])
    ELSE IF j.kind = "jarray" THEN List(j.v)
    ELSE Str(j.v)

\* np.savez_compressed appends ".npz" to a file name that does not end in it
EndsWithNpz(path) ==
    LET name == path.parts[Len(path.parts)]
    IN name[Len(name)] \in {".npz", "_normalized_resampled.npz"}

\* normalize_and_resample lines 264-281 on a metadata tree: the CTVolume of
\* the miss path
StampedCTVolume(data, target, metadata) ==
    [data |-> data,
     spacing |-> target,
     metadata |->
        Dict(("preprocessing" :> Dict("normalize_resample" :>
                                   Dict("target_spacing_mm" :> Tup(target))))
             @@ ("spacing_mm" :> Tup(target))
             @@ metadata.items)]

\* normalize_and_resample_with_cache lines 374-379
RoundNormalize ==
    /\ rpc = "normalize"
    /\ rct' = StampedCTVolume(rin.data, rin.target, rin.metadata)
    /\ rpc' = "save"
    /\ UNCHANGED <<rin, rdisk, rloaded, otherThanRound>>

\* save_cached_volume lines 311-318
SaveCachedVolume ==
    LET
        SavezPath(path) ==
            IF EndsWithNpz(path) THEN path
            ELSE [path EXCEPT !.parts[Len(path.parts)] = @ \o <<".npz">>]
    IN
    /\ rpc = "save"
    /\ rdisk' = SavezPath(rin.path) :>
                  [data |-> rct.data,
                   spacing |-> [i \in 1 .. 3 |-> RoundFloat32(rct.spacing[i])],
                   metadata_json |-> JsonDumps(rct.metadata)]
    /\ rpc' = "load"
    /\ UNCHANGED <<rin, rct, rloaded, otherThanRound>>

\* load_cached_volume lines 323-334
LoadCachedVolume ==
    /\ rpc = "load"
    /\ IF rin.path \notin DOMAIN rdisk
       THEN /\ rloaded' = [raised |-> "FileNotFoundError"]
            /\ rpc' = "raised"
       ELSE /\ rloaded' = [data |-> rdisk[rin.path].data,
                           spacing |-> rdisk[rin.path].spacing,
                           metadata |-> JsonLoads(rdisk[rin.path].metadata_json)]
            /\ rpc' = "loaded"
    /\ UNCHANGED <<rin, rct, rdisk, otherThanRound>>

(***************************************************************************)
(* preprocess_single_series (run.py) as a sequence of steps on a shared    *)
(* output tree.  A run is one invocation; it carries its row and the       *)
(* options of its config.  A file records the run that wrote it.           *)
(***************************************************************************)
RawFile == <<"r", ".", "n", "i", "i">>
GoodRow == [dataset |-> <<"a">>, series |-> <<"_">>, raw |-> RawFile]
\* a row without the raw-path field
BadRow == [dataset |-> <<"a">>, series |-> <<"a", "a">>, raw |-> Absent]

IdleRun ==
    [pc |-> "idle", row |-> <<>>, force |-> FALSE, target_ok |-> TRUE,
     b |-> <<>>, made |-> {}, wrote |-> {}, loaded |-> FALSE, segmented |-> FALSE,
     result |-> <<>>, err |-> ""]

\* the options a config gives a run: preprocess.cache.force_recompute, and
\* whether preprocess.normalization.target_spacing is positive
RunOptions == [force : BOOLEAN, target_ok : BOOLEAN]

StartedRun(row, opt) ==
    [IdleRun EXCEPT !.pc = "paths", !.row = row, !.force = opt.force,
                    !.target_ok = opt.target_ok]

\* path.mkdir(parents=True, exist_ok=True): the directory and its ancestors
MkdirParents(path) ==
    {[root |-> path.root, parts |-> SubSeq(path.parts, 1, k)] : k \in 1 .. Len(path.parts)}

TaskFileExists(path) == path \in DOMAIN tfiles

\* the file at path is now the one f
WriteFile(path, f) == [q \in DOMAIN tfiles \cup {path} |-> IF q = path THEN f ELSE tfiles[q]]

\* lines 292-300: _build_paths_for_series; a row without raw path raises
TaskBuildPaths(r) ==
    /\ truns[r].pc = "paths"
    /\ LET b == BuildPathsForSeries(truns[r].row)
       IN truns' = [truns EXCEPT ![r].b = b,
                                 ![r].pc = IF b.raised THEN "raised" ELSE "cache_path",
                                 ![r].err = IF b.raised THEN "ValueError" ELSE ""]
    /\ UNCHANGED <<tdirs, tfiles, tpipe, otherThanTask>>

\* normalize_and_resample_with_cache lines 365-367, called at line 334
TaskCachePath(r) ==
    /\ truns[r].pc = "cache_path"
    /\ LET b == truns[r].b
           new == MkdirParents(b.vol_cache_dir) \ tdirs
       IN /\ tdirs' = tdirs \cup new
          /\ truns' = [truns EXCEPT
                         ![r].made = @ \cup new,
                         ![r].pc = IF CacheHit(TaskFileExists(VolumeCachePath(b)),
                                               truns[r].force)
                                   THEN "hit" ELSE "load_raw"]
    /\ UNCHANGED <<tfiles, tpipe, otherThanTask>>

\* lines 368-369 and 342-352: the hit path loads the archive and returns
TaskLoadCached(r) ==
    /\ truns[r].pc = "hit"
    /\ LET path == VolumeCachePath(truns[r].b)
       IN IF tfiles[path].complete
          THEN truns' = [truns EXCEPT ![r].pc = "returned", ![r].result = path]
          ELSE truns' = [truns EXCEPT ![r].pc = "raised", ![r].err = "partial archive"]
    /\ UNCHANGED <<tdirs, tfiles, tpipe, otherThanTask>>

\* load_raw_fn line 311: load_ct_series(raw_path)
TaskLoadRaw(r) ==
    /\ truns[r].pc = "load_raw"
    /\ truns' = [truns EXCEPT ![r].loaded = TRUE, ![r].pc = "segment"]
    /\ UNCHANGED <<tdirs, tfiles, tpipe, otherThanTask>>

\* load_raw_fn lines 314-320: segment_lung_and_save writes the mask
TaskSegmentAndSave(r) ==
    LET
        \* path.parent
        ParentPath(p) ==
            IF p.parts = <<>> THEN p
            ELSE [root |-> p.root, parts |-> SubSeq(p.parts, 1, Len(p.parts) - 1)]
    IN
    /\ truns[r].pc = "segment"
    /\ LET path == MaskCachePath(truns[r].b)
           new == MkdirParents(ParentPath(path)) \ tdirs
       IN /\ tdirs' = tdirs \cup new
          /\ tfiles' = WriteFile(path, [kind |-> "mask", run |-> r, complete |-> TRUE])
          /\ truns' = [truns EXCEPT ![r].made = @ \cup new, ![r].wrote = @ \cup {path},
                                    ![r].segmented = TRUE, ![r].pc = "normalize"]
    /\ UNCHANGED <<tpipe, otherThanTask>>

\* normalize_and_resample, lines 374-379: raises on a non-positive target spacing
TaskNormalize(r) ==
    /\ truns[r].pc = "normalize"
    /\ truns' = [truns EXCEPT
                   ![r].pc = IF truns[r].target_ok THEN "save" ELSE "raised",
                   ![r].err = IF truns[r].target_ok THEN "" ELSE "ValueError"]
    /\ UNCHANGED <<tdirs, tfiles, tpipe, otherThanTask>>

\* save_cached_volume: np.savez_compressed creates or truncates the file
TaskSaveOpen(r) ==
    /\ truns[r].pc = "save"
    /\ LET path == VolumeCachePath(truns[r].b)
       IN /\ tfiles' = WriteFile(path, [kind |-> "volume", run |-> r,
                                        complete |-> FALSE])
          /\ truns' = [truns EXCEPT ![r].wrote = @ \cup {path}, ![r].pc = "save_close"]
    /\ UNCHANGED <<tdirs, tpipe, otherThanTask>>

\* save_cached_volume: the archive is closed; lines 380-381 and 342-352 return
TaskSaveClose(r) ==
    /\ truns[r].pc = "save_close"
    /\ LET path == VolumeCachePath(truns[r].b)
       IN /\ tfiles' = [tfiles EXCEPT ![path].complete = TRUE]
          /\ truns' = [truns EXCEPT ![r].pc = "returned", ![r].result = path]
    /\ UNCHANGED <<tdirs, tpipe, otherThanTask>>

\* a caller invokes preprocess_single_series(row, config)
Invoke(r) ==
    LET
        DefaultOptions == [force |-> FALSE, target_ok |-> TRUE]
        \* a row of another series whose key differs from GoodRow's by "/" for "_"
        SlashRow == [dataset |-> <<"a">>, series |-> <<"/">>, raw |-> RawFile]
    IN
    /\ tpipe.phase = "direct"
    /\ truns[r].pc = "idle"
    /\ \A q \in 1 .. r - 1 : truns[q].pc # "idle"
    /\ \E which \in {"good", "slash", "bad"}, opt \in RunOptions :
         /\ which # "good" => opt = DefaultOptions
         /\ truns' = [truns EXCEPT ![r] =
                         StartedRun(IF which = "good" THEN GoodRow
                                    ELSE IF which = "slash" THEN SlashRow ELSE BadRow,
                                    opt)]
    /\ UNCHANGED <<tdirs, tfiles, tpipe, otherThanTask>>

(***************************************************************************)
(* segment_lung_and_save (segment_lung.py) and load_raw_fn, the loader     *)
(* preprocess_single_series hands to the cache layer (run.py).  A saved    *)
(* mask file is the uint8 array np.save wrote: voxel -> 0 or 1.  A row is  *)
(* a dict: field name -> value.                                            *)
(***************************************************************************)
\* line 131: lung_mask.astype(np.uint8), True written as 0
AsUint8_inverted(mask) == [v \in Coords |-> IF v \in mask THEN 0 ELSE 1]

\* line 131: lung_mask.astype(np.uint8)
AsUint8(mask) == [v \in Coords |-> IF v \in mask THEN 1 ELSE 0]

\* a masking that sets the lung voxels to air
MaskedVolume_lungToAir(ct, mask) == [v \in Coords |-> IF v \in mask THEN -1024 ELSE ct[v]]

\* run.py lines 323-324: masked_volume = ct.volume.copy();
\* masked_volume[~lung_mask] = -1024.0
MaskedVolume(ct, mask) == [v \in Coords |-> IF v \in mask THEN ct[v] ELSE -1024]

\* dict.update({key: value})
SetDefault_override(d, key, value) ==
    [k \in DOMAIN d \cup {key} |-> IF k = key THEN value ELSE d[k]]

\* dict.setdefault(key, value)
SetDefault(d, key, value) ==
    [k \in DOMAIN d \cup {key} |-> IF k \in DOMAIN d THEN d[k] ELSE value]

\* the row as _build_paths_for_series reads it
RowFields(row) ==
    [dataset |-> IF "dataset_name" \in DOMAIN row THEN row["dataset_name"] ELSE Absent,
     series |-> row["series_uid"],
     raw |-> row["raw_image_path"]]

\* segment_lung_and_save, lines 125-133; np.save appends ".npy" to a file name
\* that does not end with it
SegmentLungAndSave ==
    LET parent(path) == [path EXCEPT !.parts = SubSeq(@, 1, Len(@) - 1)]
        ends_with_npy(path) ==
            LET name == path.parts[Len(path.parts)]
            IN name[Len(name)] \in {".npy", "_lungmask.npy"}
        save_path(path) ==
            IF ends_with_npy(path) THEN path
            ELSE [path EXCEPT !.parts[Len(path.parts)] = @ \o <<".npy">>]
    IN
    /\ lpc = "segment"
    /\ \E keep \in LastOfArgsort(SizesAtSort(lst.ct, lin.config),
                                 lin.config.num_components_to_keep) :
         LET lung_mask == SegmentLungWith(lst.ct, lin.config, keep)
         IN lst' = [lst EXCEPT
                      !.ct = VolumeAfterSegment(lst.ct, lin.config),
                      !.mask = lung_mask,
                      !.dirs = IF lin.has_path
                               THEN @ \cup MkdirParents(parent(lin.cache_path)) ELSE @,
                      !.files = IF lin.has_path
                                THEN save_path(lin.cache_path) :> AsUint8(lung_mask)
                                ELSE @]
    /\ lpc' = IF lin.call = "load_raw_fn" THEN "mask" ELSE "returned"
    /\ UNCHANGED <<lin, otherThanLoad>>

\* load_raw_fn, lines 322-324
ApplyMask ==
    /\ lpc = "mask"
    /\ lst' = [lst EXCEPT !.masked = MaskedVolume(lst.ct, lst.mask)]
    /\ lpc' = "metadata"
    /\ UNCHANGED <<lin, otherThanLoad>>

\* load_raw_fn, lines 326-331
BuildMetadata ==
    /\ lpc = "metadata"
    /\ LET b == BuildPathsForSeries(RowFields(lin.row))
           RECURSIVE joined(_)
           joined(parts) ==
               IF Len(parts) = 1 THEN parts[1]
               ELSE parts[1] \o <<"/">> \o joined(Tail(parts))
           \* str(path)
           str(path) == (IF path.root = "" THEN <<>> ELSE <<path.root>>) \o joined(path.parts)
       IN lst' = [lst EXCEPT !.metadata =
                     SetDefault(SetDefault(lin.row, "source_path", str(b.raw_path)),
                                "dataset_name", b.dataset_name)]
    /\ lpc' = "returned"
    /\ UNCHANGED <<lin, otherThanLoad>>

(***************************************************************************)
(* build_dask_graph and run_pipeline (run.py).  The metadata table is a    *)
(* sequence of rows; task i of the graph is run i.  The local cluster runs *)
(* at most NumWorkers tasks at a time, in any order, each once.            *)
(***************************************************************************)
\* dask.n_workers of the config (times threads_per_worker, 1 by default)
NumWorkers == 2

TableRow(tag) ==
    LET
        \* a row of a third series
        OtherRow == [dataset |-> <<"a">>, series |-> <<"a">>, raw |-> RawFile]
    IN
    IF tag = "good" THEN GoodRow ELSE IF tag = "other" THEN OtherRow ELSE BadRow

\* lines 365-374: one delayed call per row, appended in the order of iterrows
RECURSIVE BuildTasks(_, _)
BuildTasks(table, config) ==
    IF table = <<>> THEN <<>>
    ELSE <<[row |-> TableRow(Head(table)), config |-> config]>>
             \o BuildTasks(Tail(table), config)

\* dask.compute(*tasks): the results by the position of the task
ComputeResults_completionOrder(n, runs, done) == [k \in 1 .. n |-> runs[done[k]].result]
ComputeResults(n, runs, done) == [k \in 1 .. n |-> runs[k].result]

RunningPcs ==
    {"paths", "cache_path", "hit", "load_raw", "segment", "normalize", "save",
     "save_close"}
NumRunning == Cardinality({r \in DOMAIN truns : truns[r].pc \in RunningPcs})

\* run_pipeline line 410
BuildDaskGraph ==
    /\ tpipe.phase = "table"
    /\ tpipe' = [tpipe EXCEPT !.phase = "graph",
                              !.tasks = BuildTasks(tpipe.table, tpipe.config),
                              !.calls = [i \in 1 .. Len(tpipe.table) |-> 0]]
    /\ UNCHANGED <<tdirs, tfiles, truns, otherThanTask>>

\* run_pipeline line 416: dask.compute hands the tasks to the cluster
Compute ==
    /\ tpipe.phase = "graph"
    /\ tpipe' = [tpipe EXCEPT !.phase = "running"]
    /\ UNCHANGED <<tdirs, tfiles, truns, otherThanTask>>

\* a free worker takes a task that has not run and calls
\* preprocess_single_series(row=row_dict, config=config, ...)
StartTask(i) ==
    /\ tpipe.phase = "running"
    /\ i \in DOMAIN tpipe.tasks
    /\ truns[i].pc = "idle"
    /\ NumRunning < NumWorkers
    /\ truns' = [truns EXCEPT ![i] = StartedRun(tpipe.tasks[i].row, tpipe.tasks[i].config)]
    /\ tpipe' = [tpipe EXCEPT !.calls[i] = @ + 1]
    /\ UNCHANGED <<tdirs, tfiles, otherThanTask>>

\* the scheduler learns that task i has finished or failed
Collect(i) ==
    /\ tpipe.phase = "running"
    /\ i \in DOMAIN tpipe.tasks
    /\ truns[i].pc \in {"returned", "raised"}
    /\ \A k \in DOMAIN tpipe.done : tpipe.done[k] # i
    /\ tpipe' = [tpipe EXCEPT !.done = Append(@, i)]
    /\ UNCHANGED <<tdirs, tfiles, truns, otherThanTask>>

\* line 416: dask.compute raises the error of a failed task as soon as it is
\* known; run_pipeline does not catch it, and the tasks not yet run are dropped
PipelineRaise ==
    /\ tpipe.phase = "running"
    /\ \E k \in DOMAIN tpipe.done :
         /\ truns[tpipe.done[k]].pc = "raised"
         /\ tpipe' = [tpipe EXCEPT !.phase = "raised", !.err = truns[tpipe.done[k]].err]
    /\ UNCHANGED <<tdirs, tfiles, truns, otherThanTask>>

\* lines 416-424: every task has finished, dask.compute returns the tuple
PipelineReturn ==
    /\ tpipe.phase = "running"
    /\ Len(tpipe.done) = Len(tpipe.tasks)
    /\ \A i \in DOMAIN tpipe.tasks : truns[i].pc = "returned"
    /\ tpipe' = [tpipe EXCEPT !.phase = "returned",
                              !.results = ComputeResults(Len(tpipe.tasks), truns, tpipe.done)]
    /\ UNCHANGED <<tdirs, tfiles, truns, otherThanTask>>

\* after the error left run_pipeline the process ends and the cluster with
\* it: a task still on a worker stops where it is, or goes on to its end
Shutdown(i) ==
    /\ tpipe.phase = "raised"
    /\ truns[i].pc \in RunningPcs
    /\ truns' = [truns EXCEPT ![i].pc = "cancelled"]
    /\ UNCHANGED <<tdirs, tfiles, tpipe, otherThanTask>>

(***************************************************************************)
(* Specifications                                                          *)
(***************************************************************************)
PathIdle == ppc = "off" /\ rows = <<>> /\ built = <<>>
CacheIdle ==
    /\ files = <<>> /\ dirs = {} /\ pc = <<>> /\ call = <<>> /\ loads = <<>>
    /\ builds = 0 /\ hist = <<>> /\ initAbsent = <<>>
SegIdle == /\ spc = "off" /\ volume = <<>> /\ segcfg = <<>> /\ sortMemo = {}
           /\ masks = <<>> /\ volume0 = <<>>
NormIdle == npc = "off" /\ heap = <<>> /\ nargs = <<>> /\ nsnap = <<>> /\ nres = <<>>
RoundIdle == rpc = "off" /\ rin = <<>> /\ rct = <<>> /\ rdisk = <<>> /\ rloaded = <<>>
TaskIdle == tdirs = {} /\ tfiles = <<>> /\ truns = <<>> /\ tpipe = <<>>
LoadIdle == lpc = "off" /\ lin = <<>> /\ lst = <<>>

InitCache ==
    LET
        CacheInit ==
            LET
                NoHist == [started |-> 0, returned |-> 0, forced |-> 0, failed |-> 0, paths |-> {}]
                \* an archive left by an earlier run of the program (build 0)
                OldFile == [state |-> "closed", n |-> Len(ArchiveMembers),
                            entry |-> [build |-> 0, target |-> <<1, 1, 1>>], owner |-> 0, torn |-> FALSE]
                AbsentFile == [state |-> "absent", n |-> 0, entry |-> NoEntry, owner |-> 0, torn |-> FALSE]
                CachePaths == {CachePathForKey(CacheDir, k) : k \in Keys}
            IN
            /\ initAbsent \in [Keys -> BOOLEAN]
            /\ files = [p \in CachePaths |->
                          IF \E k \in Keys : CachePathForKey(CacheDir, k) = p /\ ~initAbsent[k]
                          THEN OldFile ELSE AbsentFile]
            /\ dirs = IF \E k \in Keys : ~initAbsent[k] THEN {CacheDir} ELSE {}
            /\ pc = [c \in Callers |-> "idle"]
            /\ call = [c \in Callers |-> IdleCall]
            /\ loads = [k \in Keys |-> 0]
            /\ builds = 0
            /\ hist = [k \in Keys |-> NoHist]
    IN
             CacheInit /\ PathIdle /\ SegIdle /\ NormIdle /\ RoundIdle /\ TaskIdle /\ LoadIdle

\* one caller: calls follow one another
NextSeq == CacheStep(1, Keys)
SpecSeq == InitCache /\ [][NextSeq]_vars

\* two callers of one key, interleaved at every access to the file system
NextConc == \E c \in Callers : CacheStep(c, {<<"s", "1">>})
SpecConc == InitCache /\ [][NextConc]_vars

\* the callers race for one key, with as many calls in all as there are callers
RaceCall(c) ==
    /\ SumStarted(hist, Keys) < Cardinality(Callers)
    /\ Call(c, {<<"s", "1">>})

NextRace ==
    \E c \in Callers :
        \/ RaceCall(c) \/ HitOpen(c) \/ HitRead(c) \/ LoadRaw(c) \/ Normalize(c)
        \/ SaveOpen(c) \/ SaveWrite(c) \/ SaveClose(c) \/ Return(c) \/ Propagate(c)
SpecRace == InitCache /\ [][NextRace]_vars

(***************************************************************************)
(* Claims about the cache layer                                            *)
(***************************************************************************)

\* C1: starting from an absent cache file, in any sequence of successful
\* non-forced calls with one key, load_raw_fn is invoked exactly once, by the
\* first call; every later call returns the stored entry and the same cache
\* path without invoking load_raw_fn.
C1_LoadedOnce ==
    \A k \in Keys :
        (initAbsent[k] /\ hist[k].forced = 0 /\ hist[k].failed = 0) =>
            /\ loads[k] <= 1
            /\ hist[k].returned >= 1 => loads[k] = 1
            /\ Cardinality(hist[k].paths) <= 1
            /\ \A c \in Callers :
                 (pc[c] = "done" /\ call[c].key = k) =>
                    /\ loads[k] = 1
                    /\ FileComplete(files[call[c].path])
                    /\ call[c].ct = files[call[c].path].entry
                    /\ call[c].nload = (IF hist[k].returned = 0 THEN 1 ELSE 0)
                    /\ hist[k].returned >= 1 => call[c].path \in hist[k].paths

\* a third successful non-forced call has returned from the cache
C1_Witness ==
    \E c \in Callers, k \in Keys :
        /\ initAbsent[k] /\ hist[k].forced = 0 /\ hist[k].failed = 0
        /\ pc[c] = "done" /\ call[c].key = k
        /\ hist[k].returned = 2 /\ call[c].nload = 0 /\ loads[k] = 1

\* C2: every call with force_recompute=true invokes load_raw_fn exactly once,
\* whether or not the cache file exists; when it returns it has rebuilt and
\* overwritten the entry, and it returns the path non-forced calls return.
C2_ForcedRebuilds ==
    \A c \in Callers :
        call[c].force =>
            /\ pc[c] \notin {"hit", "hit_read"}
            /\ pc[c] \in {"normalize", "save", "save_write", "save_close", "done"}
                  => call[c].nload = 1
            /\ pc[c] = "failed" => call[c].nload = 1
            /\ pc[c] = "done" =>
                  /\ call[c].ct = [build |-> builds, target |-> call[c].target]
                  /\ FileComplete(files[call[c].path])
                  /\ files[call[c].path].entry = call[c].ct
                  /\ hist[call[c].key].paths \subseteq {call[c].path}

\* a forced call has returned after overwriting the entry an earlier
\* non-forced call of the same key had stored and returned
C2_Witness ==
    \E c \in Callers :
        /\ pc[c] = "done" /\ call[c].force /\ call[c].existed
        /\ hist[call[c].key].paths = {call[c].path}
        /\ hist[call[c].key].forced = 1
        /\ call[c].ct.build = 2

\* C3: a reader on the hit path that found the cache file present never loads
\* a partially written archive.
C3_NeverPartial ==
    \A c \in Callers : ~(pc[c] = "failed" /\ call[c].err = "partial archive")

\* C25: nothing keeps two callers of one key apart.  A non-forced call that
\* found the cache file absent never takes the hit path, whatever the other
\* caller does: it invokes load_raw_fn itself and goes on to write the file.
C25_AbsentFileMeansOwnBuild ==
    \A c \in Callers :
        (pc[c] # "idle" /\ ~call[c].force /\ ~call[c].existed) =>
            /\ pc[c] \notin {"hit", "hit_read"}
            /\ pc[c] \in {"normalize", "save", "save_write", "save_close", "done"}
                  => call[c].nload = 1

\* two non-forced calls of one key both found the file absent, both invoked
\* load_raw_fn, and both have written the cache file
C25_Witness ==
    /\ initAbsent[<<"s", "1">>]
    /\ \A c \in Callers :
          /\ pc[c] = "done" /\ call[c].key = <<"s", "1">>
          /\ ~call[c].force /\ ~call[c].existed /\ call[c].nload = 1
    /\ call[1].ct.build # call[2].ct.build
    /\ loads[<<"s", "1">>] = 2
    /\ hist[<<"s", "1">>].started = 2

\* C28: a non-forced call that found the cache file returns the stored entry
\* as it is, without invoking load_raw_fn and without raising, whatever target
\* spacing the call passes: one that differs from the entry's, or one that is
\* not positive.
C28_HitIgnoresOptions ==
    \A c \in Callers :
        (pc[c] # "idle" /\ ~call[c].force /\ call[c].existed) =>
            /\ pc[c] \in {"hit", "hit_read", "done"}
            /\ call[c].nload = 0
            /\ files[call[c].path] = call[c].before
            /\ pc[c] = "done" => call[c].ct = call[c].before.entry

\* a call with a non-positive target spacing has returned, from the cache, an
\* entry built with another target spacing
C28_Witness ==
    \E c \in Callers :
        /\ pc[c] = "done" /\ ~call[c].force /\ call[c].existed
        /\ call[c].target = <<0, 1, 1>>
        /\ call[c].ct.target = <<MaxSpacing, MaxSpacing, MaxSpacing>>
        /\ call[c].ct.build = 1

\* C29: a call in which load_raw_fn or normalize_and_resample raised has left
\* the cache file as it was before the call, and a call with a target spacing
\* that is not positive never writes; a later non-forced call that finds the
\* file still absent invokes load_raw_fn again.
C29_FailedBuildLeavesEntry ==
    \A c \in Callers :
        /\ (pc[c] = "failed" /\ call[c].err \in {"load_raw_fn raised", "ValueError"}) =>
              files[call[c].path] = call[c].before
        /\ pc[c] \in {"save", "save_write", "save_close"} =>
              \A i \in 1 .. 3 : call[c].target[i] > 0
        /\ (/\ pc[c] \in {"normalize", "save", "save_write", "save_close", "done"}
            /\ ~call[c].force /\ ~call[c].existed
            /\ hist[call[c].key].failed > 0) =>
              call[c].nload = 1

\* a forced call on a stored entry failed and the entry is still the stored
\* one; a call on an absent entry failed, and the next call of that key has
\* invoked load_raw_fn again
C29_Witness ==
    \E c \in Callers :
        /\ pc[c] = "normalize" /\ ~call[c].force /\ ~call[c].existed
        /\ call[c].key = <<"s", "1">> /\ call[c].nload = 1
        /\ hist[<<"s", "1">>].failed = 1 /\ loads[<<"s", "1">>] = 2
        /\ hist[<<"s", "2">>].failed = 1 /\ hist[<<"s", "2">>].forced = 1
        /\ ~initAbsent[<<"s", "2">>]
        /\ FileComplete(files[CachePathForKey(CacheDir, <<"s", "2">>)])
        /\ files[CachePathForKey(CacheDir, <<"s", "2">>)].entry.build = 0

(***************************************************************************)
(* Claims about the per-series paths                                       *)
(***************************************************************************)
InitPaths ==
    LET
        PathInit == ppc = "first" /\ rows = <<>> /\ built = <<>>
    IN
             PathInit /\ CacheIdle /\ SegIdle /\ NormIdle /\ RoundIdle /\ TaskIdle /\ LoadIdle
NextPaths == FirstTask \/ SecondTask
SpecPaths == InitPaths /\ [][NextPaths]_vars

\* C4: two rows that differ in dataset name or in series id get different
\* volume cache paths and different lung mask paths.
C4_DisjointFiles ==
    (ppc = "both" /\ ~built[1].raised /\ ~built[2].raised
       /\ (DatasetNameOf(rows[1]) # DatasetNameOf(rows[2])
             \/ rows[1].series # rows[2].series))
    => (built[1].volume # built[2].volume /\ built[1].mask # built[2].mask)

InitKey ==
    /\ ppc = "key" /\ rows = <<>> /\ built = <<>>
    /\ CacheIdle /\ SegIdle /\ NormIdle /\ RoundIdle /\ TaskIdle /\ LoadIdle
NextKey == CachePathCall
SpecKey == InitKey /\ [][NextKey]_vars

\* C21: for every cache directory and every key, keys with "/" and with "."
\* or ".." segments included, the derived cache file is a direct child of the
\* cache directory: the directory's path followed by one file name, which
\* holds no separator and is neither "." nor "..".
C21_DirectChildOfCacheDir ==
    ppc = "derived" =>
        LET dir == ParsePath(rows[1].cache_dir)
            path == built[1]
            name == path.parts[Len(path.parts)]
        IN /\ path.root = dir.root
           /\ Len(path.parts) = Len(dir.parts) + 1
           /\ SubSeq(path.parts, 1, Len(dir.parts)) = dir.parts
           /\ \A i \in DOMAIN name : name[i] # "/"
           /\ name # <<".">> /\ name # <<".", ".">>
           /\ name = [i \in DOMAIN rows[1].cache_key |->
                         IF rows[1].cache_key[i] = "/" THEN "_" ELSE rows[1].cache_key[i]]
                     \o <<"_normalized_resampled.npz">>

\* the path of a key that starts with a ".." segment has been derived
C21_Witness ==
    /\ ppc = "derived"
    /\ rows[1] = [cache_dir |-> <<"c">>, cache_key |-> <<".", ".", "/">>]
    /\ built[1] = [root |-> "", parts |-> <<<<"c">>, <<".", ".", "_", "_normalized_resampled.npz">>>>]

(***************************************************************************)
(* Claims about segment_lung                                               *)
(***************************************************************************)
InitSeg ==
    LET
        SegInit ==
            LET
                SegConfigs ==
                    [hu_threshold : {HuThreshold},
                     min_component_size : {0, 1, 2},
                     num_components_to_keep : 1 .. MaxKeep,
                     closing_iterations : {0, 1},
                     fill_holes : BOOLEAN]
                    \* and one that asks for more components than MaxKeep
                    \cup {[hu_threshold |-> HuThreshold, min_component_size |-> 2,
                           num_components_to_keep |-> MaxKeep + 1,
                           closing_iterations |-> 0, fill_holes |-> FALSE]}
            IN
            /\ spc = "start"
            /\ volume \in Volumes
            /\ volume0 = volume
            /\ segcfg \in SegConfigs
            /\ sortMemo = {}
            /\ masks = <<>>
    IN
           SegInit /\ CacheIdle /\ PathIdle /\ NormIdle /\ RoundIdle /\ TaskIdle /\ LoadIdle
NextSeg == Segment
SpecSeg == InitSeg /\ [][NextSeg]_vars

\* the mask the last call returned
LastMask == masks[Len(masks)]
Called == spc \in {"once", "twice"}

\* the face-connected components of {voxel < hu_threshold}
ComponentsOf(vol, cfg) ==
    LET comps == Label(Threshold(vol, cfg)) IN {comps[l] : l \in 1 .. Len(comps)}

\* C5: with closing_iterations = 0 and fill_holes = false the mask is exactly
\* the union of the num_components_to_keep largest surviving components (all
\* survivors when fewer survive); no voxel at or above the threshold is true.
C5_MaskIsLargestComponents ==
    (Called /\ segcfg.closing_iterations = 0 /\ ~segcfg.fill_holes) =>
        LET n == segcfg.num_components_to_keep
            survivors == {c \in ComponentsOf(volume0, segcfg) :
                            Cardinality(c) >= segcfg.min_component_size}
            \* the ways to pick the n largest survivors (all when fewer)
            largest == {K \in SUBSET survivors :
                          /\ Cardinality(K) = Min2(n, Cardinality(survivors))
                          /\ \A a \in K, b \in survivors \ K :
                                Cardinality(a) >= Cardinality(b)}
        IN /\ \E K \in largest : LastMask = UNION K
           /\ \A v \in LastMask : volume0[v] < segcfg.hu_threshold

\* C6: segment_lung returns a mask of the input's shape, and the mask is
\* all-false whenever no voxel is below hu_threshold or every component has
\* fewer than min_component_size voxels.
C6_NoSignalGivesEmptyMask ==
    Called =>
        /\ LastMask \subseteq Coords
        /\ (\A c \in ComponentsOf(volume0, segcfg) :
               Cardinality(c) < segcfg.min_component_size) => LastMask = {}

\* a call on a volume whose components are all too small returned an all-false
\* mask, with two components to keep and no closing
C6_Witness ==
    /\ spc = "once"
    /\ Cardinality(ComponentsOf(volume0, segcfg)) = 2
    /\ segcfg.min_component_size = 2
    /\ segcfg.num_components_to_keep = 2
    /\ segcfg.closing_iterations = 0
    /\ \A c \in ComponentsOf(volume0, segcfg) : Cardinality(c) = 1
    /\ LastMask = {}

C23_SmallComponentsRemoved ==
    (Called /\ segcfg.min_component_size > 0 /\ segcfg.closing_iterations = 0
       /\ ~segcfg.fill_holes) =>
        \A c \in ComponentsOf(volume0, segcfg) :
            Cardinality(c) < segcfg.min_component_size => c \cap LastMask = {}

C30_PostProcessingOnlyAdds ==
    Called =>
        \E keep \in LastOfArgsort(SizesAtSort(volume0, segcfg),
                                   segcfg.num_components_to_keep) :
            /\ LastMask = SegmentLungWith(volume0, segcfg, keep)
            /\ SegmentLungWith(volume0, [segcfg EXCEPT !.closing_iterations = 0,
                                                       !.fill_holes = FALSE], keep)
                  \subseteq LastMask

(***************************************************************************)
(* Claims about normalize_and_resample                                     *)
(***************************************************************************)
InitNorm ==
    LET
        NormInit ==
            LET
                NormArgs ==
                    LET
                        InterpolationOrders == {0, 1, 3}       \* nearest, linear, cubic spline
                        HuWindows == {<<-1000, 400>>, <<0, 400>>}
                        NormTargets == CacheTargets
                        \* source spacings: positive ones, one with a zero and one with a negative
                        \* component
                        SourceSpacings == {<<2, 2, 2>>, <<4, 2, 2>>, <<0, 2, 2>>, <<-2, 2, 2>>}
                    IN
                    [spacing : SourceSpacings, target_spacing : NormTargets, hu_window : HuWindows,
                     apply_denoising : BOOLEAN, denoise_sigma : {"0.75"},
                     interpolation_order : InterpolationOrders]
                MetaInputs ==
                    LET
                        NestedInputs ==
                            {Dict("lung_mask" :> Str("v1")),
                             Dict("normalize_resample" :> Str("old") @@ "lung_mask" :> Str("v1"))}
                        \* the caller's metadata: absent, or a dict with or without a spacing_mm entry
                        \* and a "preprocessing" entry (a nested dict, or a value that is no dict)
                        OldSpacing == Tup(<<2, 2, 2>>)
                    IN
                    {[metadata |-> None, pre |-> None]}
                    \cup {[metadata |-> Dict(("series_uid" :> Str("abc")) @@ sp @@ pp.entry), pre |-> pp.obj] :
                            sp \in {<<>>, "spacing_mm" :> OldSpacing},
                            pp \in {[entry |-> <<>>, obj |-> None],
                                    [entry |-> "preprocessing" :> Str("notes"), obj |-> None]}
                                   \cup {[entry |-> "preprocessing" :> Ref("pre_in"), obj |-> d] :
                                           d \in NestedInputs}}
                InputArrays ==
                    LET
                        HuInputs == {-1500, 0, 800}              \* below, inside and above the windows
                    IN
                    [dtype : {"float32", "int16"}, shape : {<<1, 1, 3>>}, den : {1},
                     nums : [1 .. 3 -> HuInputs]]
            IN
            /\ npc = "clamp"
            /\ nargs \in NormArgs
            /\ \E arr \in InputArrays, m \in MetaInputs :
                 /\ heap = ("volume" :> arr) @@ ("metadata" :> m.metadata)
                           @@ (IF m.pre = None THEN <<>> ELSE "pre_in" :> m.pre)
                 /\ nsnap = heap
            /\ nres = [v |-> "volume"]
    IN
            NormInit /\ CacheIdle /\ PathIdle /\ SegIdle /\ RoundIdle /\ TaskIdle /\ LoadIdle
NextNorm == ClampHu \/ MaybeDenoise \/ ComputeZoomFactors \/ Resample \/ Stamp
SpecNorm == InitNorm /\ [][NextNorm]_vars

\* C8: the caller's input volume array holds the same values after
\* normalize_and_resample as before it, for every input, a float32 volume with
\* values outside the HU window included.
C8_InputVolumeUnchanged ==
    npc \in {"returned", "raised"} => heap["volume"] = nsnap["volume"]

\* C9: after normalize_and_resample the mapping passed in as metadata, and a
\* nested "preprocessing" mapping it holds, equal their values before the call.
C9_MetadataNotMutated ==
    npc \in {"returned", "raised"} =>
        /\ heap["metadata"] = nsnap["metadata"]
        /\ "pre_in" \in DOMAIN nsnap => heap["pre_in"] = nsnap["pre_in"]

C13_NonPositiveSpacingRaises ==
    (\E i \in 1 .. 3 : nargs.target_spacing[i] <= 0 \/ nargs.spacing[i] <= 0)
        => npc \notin {"zoom", "stamp", "returned"}

\* C14: every value of the data returned by normalize_and_resample lies within
\* [hu_min, hu_max] up to the tolerance, whatever the options.
C14_OutputInsideWindow ==
    npc = "returned" =>
        LET out == heap[nres.data]
        IN \A k \in DOMAIN out.nums :
             /\ out.nums[k] >= (nargs.hu_window[1] - ToleranceHU) * out.den
             /\ out.nums[k] <= (nargs.hu_window[2] + ToleranceHU) * out.den

(***************************************************************************)
(* Claims about the cache round trip                                       *)
(***************************************************************************)
InitRound ==
    LET
        \* the doubles a spacing component is drawn from: whole millimetres, and
        \* 1 + 2^-24 mm (1.0000000596046448), which no float32 equals
        RoundSpacingValues ==
            LET
                Mm(k) == k * TwoTo24
            IN
                              {Mm(k) : k \in 1 .. MaxSpacing} \cup {Mm(1) + 1}
        RoundInit ==
            LET
                \* cache paths: one as _cache_path_for_key builds it, one with no .npz suffix
                RoundPaths == {CachePathForKey(CacheDir, <<"s", "1">>), JoinPath(CacheDir, <<"c", "t">>)}
                RoundMetadata ==
                    {EmptyDict,
                     Dict("series_uid" :> Str("abc")),
                     Dict("series_uid" :> Str("abc") @@ "orientation" :> Tup(<<"L", "P", "S">>))}
                RoundData == {<<-1000, 400>>, <<0, 0>>}
                RoundSpacings == RoundSpacingValues \X RoundSpacingValues \X RoundSpacingValues
            IN
            /\ rpc = "normalize"
            /\ rin \in [data : RoundData, target : RoundSpacings, metadata : RoundMetadata,
                        path : RoundPaths]
            /\ rct = <<>>
            /\ rdisk = <<>>
            /\ rloaded = <<>>
    IN
             RoundInit /\ CacheIdle /\ PathIdle /\ SegIdle /\ NormIdle /\ TaskIdle /\ LoadIdle
NextRound == RoundNormalize \/ SaveCachedVolume \/ LoadCachedVolume
SpecRound == InitRound /\ [][NextRound]_vars

\* C11: in every CTVolume returned by normalize_and_resample (the miss path
\* of normalize_and_resample_with_cache) and by the hit path,
\* metadata["spacing_mm"] equals the spacing field component for component.
C11_SpacingMirrored ==
    /\ rpc # "normalize" =>
         \A i \in 1 .. 3 : rct.metadata.items["spacing_mm"].v[i] = rct.spacing[i]
    /\ rpc = "loaded" =>
         \A i \in 1 .. 3 : rloaded.metadata.items["spacing_mm"].v[i] = rloaded.spacing[i]

\* C12: load_cached_volume after save_cached_volume(c, p) returns a CTVolume
\* with c's data, c's spacing and c's metadata as a JSON round trip leaves it.
C12_RoundTrip ==
    rpc \in {"loaded", "raised"} =>
        /\ rpc = "loaded"
        /\ rloaded.data = rct.data
        /\ rloaded.spacing = rct.spacing
        /\ rloaded.metadata = JsonLoads(JsonDumps(rct.metadata))

(***************************************************************************)
(* Claims about preprocess_single_series                                   *)
(***************************************************************************)
InitTask ==
    LET
        TaskInit ==
            /\ tdirs = {}
            /\ tfiles = <<>>
            /\ truns = [r \in 1 .. MaxRuns |-> IdleRun]
            /\ tpipe = [phase |-> "direct"]
    IN
            TaskInit /\ CacheIdle /\ PathIdle /\ SegIdle /\ NormIdle /\ RoundIdle /\ LoadIdle
NextTask ==
    \E r \in 1 .. MaxRuns :
        \/ Invoke(r)
        \/ TaskBuildPaths(r)
        \/ TaskCachePath(r)
        \/ TaskLoadCached(r)
        \/ TaskLoadRaw(r)
        \/ TaskSegmentAndSave(r)
        \/ TaskNormalize(r)
        \/ TaskSaveOpen(r)
        \/ TaskSaveClose(r)
SpecTask == InitTask /\ [][NextTask]_vars

\* C15: preprocess_single_series on a row without the raw-path field raises,
\* having loaded no volume, created no directory and written no file.
C15_MissingRawPathRaisesFirst ==
    \A r \in DOMAIN truns :
        (truns[r].pc \notin {"idle", "paths"} /\ truns[r].row.raw = Absent) =>
            /\ truns[r].pc = "raised"
            /\ ~truns[r].loaded
            /\ truns[r].made = {}
            /\ truns[r].wrote = {}

\* a run on a row without raw path has raised beside a run that wrote its files
C15_Witness ==
    \E r, q \in DOMAIN truns :
        /\ truns[r].pc = "raised" /\ truns[r].row = BadRow /\ truns[r].err = "ValueError"
        /\ truns[q].pc = "returned" /\ truns[q].wrote # {}

\* C18: every invocation of preprocess_single_series that has returned ran the
\* lung segmentation, and the mask file of its key exists.
C18_ReturnedRunsSegmented ==
    \A r \in DOMAIN truns :
        truns[r].pc = "returned" =>
            /\ truns[r].segmented
            /\ TaskFileExists(MaskCachePath(truns[r].b))

\* C19: whenever the lung mask file and the cached volume file of a key both
\* exist, one run of preprocess_single_series produced both.
C19_MaskAndVolumeOfOneRun ==
    \A r \in DOMAIN truns :
        (truns[r].pc \notin {"idle", "paths", "raised"}
           /\ TaskFileExists(MaskCachePath(truns[r].b))
           /\ TaskFileExists(VolumeCachePath(truns[r].b)))
        => tfiles[MaskCachePath(truns[r].b)].run = tfiles[VolumeCachePath(truns[r].b)].run

(***************************************************************************)
(* Claims about build_dask_graph and run_pipeline                          *)
(***************************************************************************)
InitPipe ==
    LET
        PipeInit ==
            LET
                \* load_metadata_table: the tables a config can name
                MetadataTables ==
                    LET
                        RowTags == {"good", "other", "bad"}
                    IN
                                  UNION {[1 .. n -> RowTags] : n \in 0 .. MaxRuns}
            IN
            /\ tdirs = {}
            /\ tfiles = <<>>
            /\ truns = [r \in 1 .. MaxRuns |-> IdleRun]
            /\ \E table \in MetadataTables, config \in RunOptions :
                 tpipe = [phase |-> "table", table |-> table, config |-> config,
                          tasks |-> <<>>, calls |-> <<>>, done |-> <<>>, results |-> <<>>,
                          err |-> ""]
    IN
            PipeInit /\ CacheIdle /\ PathIdle /\ SegIdle /\ NormIdle /\ RoundIdle /\ LoadIdle
NextPipe ==
    \/ BuildDaskGraph
    \/ Compute
    \/ PipelineRaise
    \/ PipelineReturn
    \/ \E i \in 1 .. MaxRuns :
        \/ StartTask(i)
        \/ Collect(i)
        \/ Shutdown(i)
        \/ TaskBuildPaths(i)
        \/ TaskCachePath(i)
        \/ TaskLoadCached(i)
        \/ TaskLoadRaw(i)
        \/ TaskSegmentAndSave(i)
        \/ TaskNormalize(i)
        \/ TaskSaveOpen(i)
        \/ TaskSaveClose(i)
SpecPipe == InitPipe /\ [][NextPipe]_vars

C20_SiblingsRunToCompletion ==
    (tpipe.phase = "raised" /\ NumRunning = 0) =>
        \A i \in DOMAIN tpipe.tasks :
            truns[i].pc # "raised" =>
                /\ truns[i].pc = "returned"
                /\ TaskFileExists(truns[i].result)
                /\ tfiles[truns[i].result].complete

(***************************************************************************)
(* Claims about segment_lung_and_save and load_raw_fn                      *)
(***************************************************************************)
InitLoad ==
    LET LoadConfigs ==
            {[hu_threshold |-> HuThreshold, min_component_size |-> 0,
              num_components_to_keep |-> 1, closing_iterations |-> 0,
              fill_holes |-> FALSE],
             [hu_threshold |-> HuThreshold, min_component_size |-> 2,
              num_components_to_keep |-> MaxKeep, closing_iterations |-> 0,
              fill_holes |-> TRUE]}
        \* rows with and without a dataset_name and a source_path of their own
        LoadRows ==
            {("series_uid" :> <<"_">>) @@ ("raw_image_path" :> RawFile) @@ d @@ sp :
                d \in {<<>>, "dataset_name" :> <<"a">>},
                sp \in {<<>>, "source_path" :> <<"x">>}}
        MaskDir == ParsePath(<<"m">>)
    IN
    /\ lpc = "segment"
    /\ \E vol \in Volumes, cfg \in LoadConfigs :
         \/ \E which \in {"none", "npy", "bare"} :
              lin = [call |-> "segment_lung_and_save", volume |-> vol, config |-> cfg,
                     has_path |-> which # "none",
                     cache_path |-> JoinPath(MaskDir, IF which = "npy" THEN <<"x", ".npy">>
                                                      ELSE <<"x">>),
                     row |-> <<>>]
         \/ \E row \in LoadRows :
              lin = [call |-> "load_raw_fn", volume |-> vol, config |-> cfg,
                     has_path |-> TRUE,
                     cache_path |-> MaskCachePath(BuildPathsForSeries(RowFields(row))),
                     row |-> row]
    /\ lst = [ct |-> lin.volume, mask |-> {}, dirs |-> {}, files |-> <<>>,
              masked |-> <<>>, metadata |-> <<>>]
    /\ CacheIdle /\ PathIdle /\ SegIdle /\ NormIdle /\ RoundIdle /\ TaskIdle
NextLoad == SegmentLungAndSave \/ ApplyMask \/ BuildMetadata
SpecLoad == InitLoad /\ [][NextLoad]_vars

C26_MaskedOutsideLungOnly ==
    lpc \in {"metadata", "returned"} /\ lin.call = "load_raw_fn" =>
        /\ DOMAIN lst.files = {lin.cache_path}
        /\ \A v \in Coords :
              lst.masked[v] = IF lst.files[lin.cache_path][v] # 0
                              THEN lin.volume[v] ELSE -1024
        /\ lst.ct = lin.volume

\* load_raw_fn has masked a volume with lung voxels and other voxels
C26_Witness ==
    /\ lpc = "returned" /\ lin.call = "load_raw_fn"
    /\ \E v, w \in Coords :
         /\ lst.masked[v] = -800 /\ lin.volume[v] = -800
         /\ lst.masked[w] = -1024 /\ lin.volume[w] = HuThreshold

\* C27: the metadata load_raw_fn returns holds every field of the row with the
\* row's value; source_path and dataset_name are added exactly when the row
\* lacks them.
C27_RowFieldsKept ==
    lpc = "returned" /\ lin.call = "load_raw_fn" =>
        /\ \A k \in DOMAIN lin.row : lst.metadata[k] = lin.row[k]
        /\ DOMAIN lst.metadata = DOMAIN lin.row \cup {"source_path", "dataset_name"}
        /\ "source_path" \notin DOMAIN lin.row =>
              lst.metadata["source_path"] = <<"data", "/">> \o lin.row["raw_image_path"]
        /\ "dataset_name" \notin DOMAIN lin.row =>
              lst.metadata["dataset_name"] = <<"UNKNOWN">>

\* load_raw_fn has returned for a row that has a source_path of its own and no
\* dataset_name
C27_Witness ==
    /\ lpc = "returned" /\ lin.call = "load_raw_fn"
    /\ "source_path" \in DOMAIN lin.row /\ "dataset_name" \notin DOMAIN lin.row
    /\ lst.metadata["source_path"] = <<"x">>
    /\ lst.metadata["dataset_name"] = <<"UNKNOWN">>

=============================================================================
